---------------------------- MODULE Spec2Model ----------------------------
(***************************************************************************)
(* Model of src/app/page.tsx, the second ("most advanced") TailwindConverter *)
(* of the file (lines 280-1022): parseCSS, toTailwind, applyPrefixes,       *)
(* getClassPropertyType, mergeClasses, the `output` memo, and the variable  *)
(* dictionary with its form and its copy in localStorage.                   *)
(*                                                                         *)
(* JavaScript strings are TLA+ strings; TLC evaluates Len, \o, SubSeq,      *)
(* Head and Tail on them, so every string function below works character   *)
(* by character as the JavaScript built-in it models does.  A JavaScript    *)
(* object (cssObj, varDict, the lookup tables) is a function whose DOMAIN   *)
(* is its set of own keys.                                                  *)
(***************************************************************************)
EXTENDS Integers, Sequences, FiniteSets, TLC

VARIABLES
    cssInput,          \* useState: the CSS text area
    prefixes,          \* useState: the prefix input
    existingClasses,   \* useState: the existing-classes input
    varDict,           \* useState: the variable dictionary
    parsed,            \* parseCSS(cssInput)
    tw,                \* toTailwind(parsed)
    withPxStr,         \* applyPrefixes(tw, prefixes)
    merged,            \* mergeClasses(existingClassesList, newClassesList)
    output,            \* the memoised output string
    pc,                \* position in the computation of `output`
    typed,             \* the lines cssInput was typed from, with their structure
    varDictType,       \* the kind of JavaScript value varDict holds
    varDictKeys,       \* Object.keys(varDict): its own keys in property order
    newVarKey,         \* useState: the variable-name input
    newVarValue,       \* useState: the Tailwind-value input
    storage,           \* localStorage
    pendingEffect      \* the snapshots the persistence effect has yet to write

\* the dictionary form and its persistence
store == <<varDictType, varDictKeys, newVarKey, newVarValue, storage,
           pendingEffect>>

vars == <<cssInput, prefixes, existingClasses, varDict, parsed, tw,
          withPxStr, merged, output, pc, typed, store>>

----------------------------------------------------------------------------
(* JavaScript string built-ins *)

Ch(s, i) == SubSeq(s, i, i)
Take(s, n) == SubSeq(s, 1, n)
Drop(s, n) == SubSeq(s, n + 1, Len(s))

\* /\s/ : the white-space characters the inputs can hold
IsWs(c) == c \in {" ", "\t", "\n", "\r"}

Letters ==
    {"a","b","c","d","e","f","g","h","i","j","k","l","m","n","o","p","q","r",
     "s","t","u","v","w","x","y","z","A","B","C","D","E","F","G","H","I","J",
     "K","L","M","N","O","P","Q","R","S","T","U","V","W","X","Y","Z"}

Digits == {"0","1","2","3","4","5","6","7","8","9"}

\* s.startsWith(p)
startsWith(s, p) == Len(p) <= Len(s) /\ Take(s, Len(p)) = p

\* s.endsWith(p)
endsWith(s, p) == Len(p) <= Len(s) /\ Drop(s, Len(s) - Len(p)) = p

\* the 1-based position of the first occurrence of p in s at or after i, 0 if none
RECURSIVE indexFrom(_, _, _)
indexFrom(s, p, i) ==
    IF i + Len(p) - 1 > Len(s) THEN 0
    ELSE IF SubSeq(s, i, i + Len(p) - 1) = p THEN i
    ELSE indexFrom(s, p, i + 1)

indexOf(s, p) == indexFrom(s, p, 1)

\* s.includes(p)
includes(s, p) == indexOf(s, p) # 0

\* s.replace(p, r) with a string pattern: the first occurrence only.  (No input
\* of the model holds a `$`, so r holds no substitution pattern.)
replace(s, p, r) ==
    LET i == indexOf(s, p)
    IN  IF i = 0 THEN s ELSE Take(s, i - 1) \o r \o Drop(s, i + Len(p) - 1)

RECURSIVE trimStart(_)
trimStart(s) ==
    IF Len(s) > 0 /\ IsWs(Ch(s, 1)) THEN trimStart(Drop(s, 1)) ELSE s

RECURSIVE trimEnd(_)
trimEnd(s) ==
    IF Len(s) > 0 /\ IsWs(Ch(s, Len(s))) THEN trimEnd(Take(s, Len(s) - 1)) ELSE s

\* s.trim()
trim(s) == trimEnd(trimStart(s))

\* s.split(sep) for a one-character separator: always at least one element
RECURSIVE split(_, _)
split(s, sep) ==
    LET i == indexOf(s, sep)
    IN  IF i = 0 THEN <<s>> ELSE <<Take(s, i - 1)>> \o split(Drop(s, i), sep)

\* the length of the white-space run that starts s
RECURSIVE wsRun(_)
wsRun(s) == IF Len(s) > 0 /\ IsWs(Ch(s, 1)) THEN 1 + wsRun(Drop(s, 1)) ELSE 0

\* the 1-based position of the first white-space character of s, 0 if none
RECURSIVE firstWs(_, _)
firstWs(s, i) ==
    IF i > Len(s) THEN 0 ELSE IF IsWs(Ch(s, i)) THEN i ELSE firstWs(s, i + 1)

\* s.split(/\s+/): a leading or trailing white-space run leaves an empty
\* first or last element, and "" splits to [""]
RECURSIVE splitWs(_)
splitWs(s) ==
    LET i == firstWs(s, 1)
    IN  IF i = 0 THEN <<s>>
        ELSE LET rest == Drop(s, i - 1)
             IN  <<Take(s, i - 1)>> \o splitWs(Drop(rest, wsRun(rest)))

\* a.join(sep)
RECURSIVE join(_, _)
join(a, sep) ==
    IF Len(a) = 0 THEN ""
    ELSE IF Len(a) = 1 THEN a[1]
    ELSE a[1] \o sep \o join(Tail(a), sep)

\* a.filter(Boolean) on an array of strings
filterBoolean(a) == SelectSeq(a, LAMBDA x : x # "")

\* a.map((l) => l.trim())
mapTrim(a) == [i \in 1..Len(a) |-> trim(a[i])]

\* obj[key] is truthy: an own key bound to a non-empty string
truthy(obj, key) == key \in DOMAIN obj /\ obj[key] # ""

----------------------------------------------------------------------------
(* parseCSS, lines 817-860 *)

\* [a-zA-Z-]
IsPropChar(c) == c \in Letters \cup {"-"}

\* the length of the longest prefix of s matched by [a-zA-Z-]*
RECURSIVE propRun(_)
propRun(s) ==
    IF Len(s) > 0 /\ IsPropChar(Ch(s, 1)) THEN 1 + propRun(Drop(s, 1)) ELSE 0

NoMatch == [found |-> FALSE]

\* line.match(/^([a-zA-Z-]+)\s*:\s*(.*?);$/) on a trimmed line (no line break
\* in it).  The property is the longest run of [a-zA-Z-]; after optional
\* white space a colon must follow; the value is what lies between the white
\* space after the colon and the final `;`.
lineMatch(line) ==
    LET n == propRun(line)
        afterProp == Drop(line, n)
        afterWs == Drop(afterProp, wsRun(afterProp))
        afterColon == Drop(afterWs, 1)
        rest == Drop(afterColon, wsRun(afterColon))
    IN  IF n = 0 \/ ~startsWith(afterWs, ":") \/ ~endsWith(rest, ";")
        THEN NoMatch
        ELSE [found |-> TRUE, prop |-> Take(line, n),
              value |-> Take(rest, Len(rest) - 1)]

\* an attempt of /var\(([^,]+),\s*([^)]+)\)/ at position i of value: the name
\* runs to the first comma and is not empty, the fallback runs to the first `)`
\* and is not empty; \s* gives back one character when all of it is white space
varMatchAt(value, i) ==
    LET rest == Drop(value, i + 3)
        c == indexOf(rest, ",")
        after == Drop(rest, c)
        p == indexOf(after, ")")
        run == Take(after, p - 1)
    IN  IF SubSeq(value, i, i + 3) # "var(" \/ c < 2 \/ p < 2
        THEN NoMatch
        ELSE [found |-> TRUE,
              text |-> SubSeq(value, i, i + 3 + c + p),
              varName |-> Take(rest, c - 1),
              fallback |-> IF trimStart(run) = "" THEN Ch(run, Len(run))
                           ELSE trimStart(run),
              lastIndex |-> i + 4 + c + p]

\* varRegex.exec(value) with lastIndex = i: the leftmost match at or after i
RECURSIVE varRegexExec(_, _)
varRegexExec(value, i) ==
    IF i + 3 > Len(value) THEN NoMatch
    ELSE LET m == varMatchAt(value, i)
         IN  IF m.found THEN m ELSE varRegexExec(value, i + 1)

\* fallback.trim().replace(/^["']|["']$/g, "")
stripQuotes(s) ==
    LET lead == Len(s) > 0 /\ Ch(s, 1) \in {"\"", "'"}
        s1 == IF lead THEN Drop(s, 1) ELSE s
        trail == Len(s1) > 0 /\ Ch(s1, Len(s1)) \in {"\"", "'"}
    IN  IF trail THEN Take(s1, Len(s1) - 1) ELSE s1

\* lines 841-848: the replacement of one match
replacementOf(m, dict) ==
    LET trimmedVarName == trim(m.varName)
    IN  IF truthy(dict, trimmedVarName)
        THEN "__DICT__" \o dict[trimmedVarName]
        ELSE stripQuotes(trim(m.fallback))

\* lines 836-852: the while loop; the regex runs over `value`, each match is
\* replaced (first occurrence) in processedValue
RECURSIVE varLoop(_, _, _, _)
varLoop(value, i, processedValue, dict) ==
    LET m == varRegexExec(value, i)
    IN  IF ~m.found THEN processedValue
        ELSE varLoop(value, m.lastIndex,
                     replace(processedValue, m.text, replacementOf(m, dict)),
                     dict)

\* a mutant of processValue: no loop, the first match only (the regex without
\* its g flag)
processValueOnce(value, dict) ==
    LET m == varRegexExec(value, 1)
    IN  IF ~m.found THEN value
        ELSE replace(value, m.text, replacementOf(m, dict))

processValue(value, dict) == varLoop(value, 1, value, dict)

\* a mutant of parseLines: a property already in obj keeps its value
RECURSIVE parseLinesFirstWins(_, _, _)
parseLinesFirstWins(lines, obj, dict) ==
    IF Len(lines) = 0 THEN obj
    ELSE LET match == lineMatch(Head(lines))
         IN  parseLinesFirstWins(Tail(lines),
                 IF match.found
                 THEN obj @@ (match.prop :> processValue(match.value, dict))
                 ELSE obj,
                 dict)

\* lines 825-856: the for loop over the lines, obj[prop] = processedValue
RECURSIVE parseLines(_, _, _)
parseLines(lines, obj, dict) ==
    IF Len(lines) = 0 THEN obj
    ELSE LET match == lineMatch(Head(lines))
         IN  parseLines(Tail(lines),
                        IF match.found
                        THEN (match.prop :> processValue(match.value, dict)) @@ obj
                        ELSE obj,
                        dict)

EmptyObj == [k \in {} |-> ""]

parseCSS(css, dict) ==
    parseLines(filterBoolean(mapTrim(split(css, "\n"))), EmptyObj, dict)

----------------------------------------------------------------------------
(* toTailwind, lines 290-604 *)

\* line 293: v.replace("px", "")
px(v) == replace(v, "px", "")

\* lines 296-306
fontWeightMap ==
    ("100" :> "thin") @@ ("200" :> "extralight") @@ ("300" :> "light") @@
    ("400" :> "normal") @@ ("500" :> "medium") @@ ("600" :> "semibold") @@
    ("700" :> "bold") @@ ("800" :> "extrabold") @@ ("900" :> "black")

\* lines 309-323
fontSizeMap ==
    ("12" :> "xs") @@ ("14" :> "sm") @@ ("16" :> "base") @@ ("18" :> "lg") @@
    ("20" :> "xl") @@ ("24" :> "2xl") @@ ("30" :> "3xl") @@ ("36" :> "4xl") @@
    ("48" :> "5xl") @@ ("60" :> "6xl") @@ ("72" :> "7xl") @@ ("96" :> "8xl") @@
    ("128" :> "9xl")

\* lines 326-333
lineHeightMap ==
    ("1" :> "none") @@ ("1.25" :> "tight") @@ ("1.5" :> "snug") @@
    ("1.75" :> "normal") @@ ("2" :> "relaxed") @@ ("2.25" :> "loose")

\* lines 336-343
letterSpacingMap ==
    ("-0.05em" :> "tighter") @@ ("-0.025em" :> "tight") @@ ("0em" :> "normal") @@
    ("0.025em" :> "wide") @@ ("0.05em" :> "wider") @@ ("0.1em" :> "widest")

\* lines 346-352
textDecorationStyleMap ==
    ("solid" :> "solid") @@ ("double" :> "double") @@ ("dotted" :> "dotted") @@
    ("dashed" :> "dashed") @@ ("wavy" :> "wavy")

\* lines 355-363 and 589-597: a colour property under Tailwind key twKey
colorClass(cssObj, prop, twKey) ==
    IF ~truthy(cssObj, prop) THEN <<>>
    ELSE IF startsWith(cssObj[prop], "__DICT__")
    THEN <<twKey \o "-[" \o replace(cssObj[prop], "__DICT__", "") \o "]">>
    ELSE <<twKey \o "-[" \o cssObj[prop] \o "]">>

\* line 364
textAlignClass(cssObj) ==
    IF truthy(cssObj, "text-align") THEN <<"text-" \o cssObj["text-align"]>>
    ELSE <<>>

\* lines 367-380
decorationLineClass(cssObj) ==
    IF ~truthy(cssObj, "text-decoration-line") THEN <<>>
    ELSE LET decoration == cssObj["text-decoration-line"]
         IN  IF decoration = "underline" THEN <<"underline">>
             ELSE IF decoration = "line-through" THEN <<"line-through">>
             ELSE IF decoration = "overline" THEN <<"overline">>
             ELSE IF decoration = "none" THEN <<"no-underline">>
             ELSE <<"decoration-[" \o decoration \o "]">>

\* a mutant of decorationStyleClass: without the test of line 383
decorationStyleClassNoDefault(cssObj) ==
    IF ~truthy(cssObj, "text-decoration-style") THEN <<>>
    ELSE LET style == cssObj["text-decoration-style"]
         IN  IF truthy(textDecorationStyleMap, style)
             THEN <<"decoration-" \o textDecorationStyleMap[style]>>
             ELSE <<"decoration-[" \o style \o "]">>

\* lines 381-392
decorationStyleClass(cssObj) ==
    IF ~truthy(cssObj, "text-decoration-style") THEN <<>>
    ELSE LET style == cssObj["text-decoration-style"]
         IN  IF style = "solid" THEN <<>>
             ELSE IF truthy(textDecorationStyleMap, style)
             THEN <<"decoration-" \o textDecorationStyleMap[style]>>
             ELSE <<"decoration-[" \o style \o "]">>

\* lines 393-402
decorationSkipInkClass(cssObj) ==
    IF ~truthy(cssObj, "text-decoration-skip-ink") THEN <<>>
    ELSE LET skipInk == cssObj["text-decoration-skip-ink"]
         IN  IF skipInk = "auto" THEN <<"decoration-skip-ink">>
             ELSE IF skipInk = "none" THEN <<"decoration-skip-ink-none">>
             ELSE <<"decoration-skip-ink-[" \o skipInk \o "]">>

\* lines 403-418
decorationThicknessClass(cssObj) ==
    IF ~truthy(cssObj, "text-decoration-thickness") THEN <<>>
    ELSE LET thickness == cssObj["text-decoration-thickness"]
         IN  IF thickness = "auto" THEN <<>>
             ELSE IF thickness = "1px" \/ thickness = "thin" THEN <<"decoration-1">>
             ELSE IF thickness = "2px" \/ thickness = "medium" THEN <<"decoration-2">>
             ELSE IF thickness = "4px" \/ thickness = "thick" THEN <<"decoration-4">>
             ELSE <<"[text-decoration-thickness:" \o thickness \o "]">>

\* lines 419-424
underlineOffsetClass(cssObj) ==
    IF ~truthy(cssObj, "text-underline-offset") THEN <<>>
    ELSE LET offset == cssObj["text-underline-offset"]
         IN  IF offset = "auto" THEN <<>>
             ELSE <<"underline-offset-[" \o offset \o "]">>

\* lines 425-435
underlinePositionClass(cssObj) ==
    IF ~truthy(cssObj, "text-underline-position") THEN <<>>
    ELSE LET position == cssObj["text-underline-position"]
         IN  IF position = "auto" \/ position = "from-font" THEN <<>>
             ELSE <<"[text-underline-position:" \o position \o "]">>

\* lines 438-446
fontSizeClass(cssObj) ==
    IF ~truthy(cssObj, "font-size") THEN <<>>
    ELSE LET sizePx == px(cssObj["font-size"])
         IN  IF truthy(fontSizeMap, sizePx)
             THEN <<"text-" \o fontSizeMap[sizePx]>>
             ELSE <<"text-[" \o sizePx \o "px]">>

\* lines 447-455
fontWeightClass(cssObj) ==
    IF ~truthy(cssObj, "font-weight") THEN <<>>
    ELSE LET weight == cssObj["font-weight"]
         IN  IF truthy(fontWeightMap, weight)
             THEN <<"font-" \o fontWeightMap[weight]>>
             ELSE <<"font-[" \o weight \o "]">>

\* lines 456-464
lineHeightClass(cssObj) ==
    IF ~truthy(cssObj, "line-height") THEN <<>>
    ELSE LET leading == cssObj["line-height"]
         IN  IF truthy(lineHeightMap, leading)
             THEN <<"leading-" \o lineHeightMap[leading]>>
             ELSE <<"leading-[" \o leading \o "]">>

\* lines 465-474
letterSpacingClass(cssObj) ==
    IF ~truthy(cssObj, "letter-spacing") THEN <<>>
    ELSE LET tracking == cssObj["letter-spacing"]
         IN  IF truthy(letterSpacingMap, tracking)
             THEN <<"tracking-" \o letterSpacingMap[tracking]>>
             ELSE <<"tracking-[" \o tracking \o "]">>

\* lines 475-488
fontFamilyClass(cssObj) ==
    IF ~truthy(cssObj, "font-family") THEN <<>>
    ELSE IF startsWith(cssObj["font-family"], "__DICT__")
    THEN LET dictValue == replace(cssObj["font-family"], "__DICT__", "")
         IN  IF startsWith(dictValue, "font-") THEN <<dictValue>>
             ELSE <<"font-" \o dictValue>>
    ELSE <<"font-[" \o cssObj["font-family"] \o "]">>

\* lines 489-498
fontStyleClass(cssObj) ==
    IF ~truthy(cssObj, "font-style") THEN <<>>
    ELSE LET style == cssObj["font-style"]
         IN  IF style = "italic" THEN <<"italic">>
             ELSE IF style = "normal" THEN <<"not-italic">>
             ELSE <<"font-[" \o style \o "]">>

\* lines 501-512, in Object.entries order
spacingMap ==
    << <<"margin", "m">>, <<"margin-top", "mt">>, <<"margin-bottom", "mb">>,
       <<"margin-left", "ml">>, <<"margin-right", "mr">>, <<"padding", "p">>,
       <<"padding-top", "pt">>, <<"padding-bottom", "pb">>,
       <<"padding-left", "pl">>, <<"padding-right", "pr">> >>

\* lines 514, 518, 519, 598, 601: `${twKey}-[${cssObj[prop]}]` when cssObj[prop] is truthy
bracketClass(cssObj, prop, twKey) ==
    IF truthy(cssObj, prop) THEN <<twKey \o "-[" \o cssObj[prop] \o "]">> ELSE <<>>

\* lines 513-515
RECURSIVE spacingClasses(_, _)
spacingClasses(cssObj, i) ==
    IF i > Len(spacingMap) THEN <<>>
    ELSE bracketClass(cssObj, spacingMap[i][1], spacingMap[i][2])
         \o spacingClasses(cssObj, i + 1)

\* lines 522-530
borderRadiusClass(cssObj) ==
    IF ~truthy(cssObj, "border-radius") THEN <<>>
    ELSE LET radius == cssObj["border-radius"]
         IN  IF radius = "4px" \/ radius = "0.25rem" THEN <<"rounded">>
             ELSE <<"rounded-[" \o radius \o "]">>

\* lines 533-539, in Object.entries order
borderSideMap ==
    << <<"border", "border">>, <<"border-top", "border-t">>,
       <<"border-bottom", "border-b">>, <<"border-left", "border-l">>,
       <<"border-right", "border-r">> >>

\* lines 550-561
borderWidthClass(parts, twPrefix) ==
    LET width == parts[1]
    IN  IF width # "" /\ width # "0" /\ width # "0px"
        THEN IF width = "1px" \/ width = "0.0625rem" THEN <<twPrefix>>
             ELSE <<twPrefix \o "-[" \o width \o "]">>
        ELSE <<>>

\* a mutant of borderStylePushed: no running set of styles
borderStylePushedNoSet(parts, borderStyles) ==
    Len(parts) >= 2 /\ parts[2] # "" /\ parts[2] # "none"

\* lines 563-570: whether the style class is pushed
borderStylePushed(parts, borderStyles) ==
    Len(parts) >= 2 /\ parts[2] # "" /\ parts[2] # "none" /\ parts[2] \notin borderStyles

\* lines 572-584
borderColorClass(parts, twPrefix) ==
    IF Len(parts) < 3 THEN <<>>
    ELSE LET color == join(SubSeq(parts, 3, Len(parts)), " ")
         IN  IF color # "" /\ color # "transparent"
             THEN IF startsWith(color, "__DICT__")
                  THEN <<twPrefix \o "-[" \o replace(color, "__DICT__", "") \o "]">>
                  ELSE <<twPrefix \o "-[" \o color \o "]">>
             ELSE <<>>

\* lines 544-586: the forEach over the sides, with the running set borderStyles
RECURSIVE borderClasses(_, _, _)
borderClasses(cssObj, i, borderStyles) ==
    IF i > Len(borderSideMap) THEN <<>>
    ELSE LET prop == borderSideMap[i][1]
             twPrefix == borderSideMap[i][2]
         IN  IF ~truthy(cssObj, prop) THEN borderClasses(cssObj, i + 1, borderStyles)
             ELSE LET parts == splitWs(trim(cssObj[prop]))
                      pushed == borderStylePushed(parts, borderStyles)
                  IN  borderWidthClass(parts, twPrefix)
                      \o (IF pushed THEN <<"border-" \o parts[2]>> ELSE <<>>)
                      \o borderColorClass(parts, twPrefix)
                      \o borderClasses(cssObj, i + 1,
                             IF pushed THEN borderStyles \cup {parts[2]}
                             ELSE borderStyles)

\* lines 354-435
textSection(cssObj) ==
    colorClass(cssObj, "color", "text") \o textAlignClass(cssObj)
    \o decorationLineClass(cssObj) \o decorationStyleClass(cssObj)
    \o decorationSkipInkClass(cssObj) \o decorationThicknessClass(cssObj)
    \o underlineOffsetClass(cssObj) \o underlinePositionClass(cssObj)

\* a mutant of fontSection: the family first, the style after the weight
fontSectionFamilyFirst(cssObj) ==
    fontFamilyClass(cssObj) \o fontSizeClass(cssObj) \o fontWeightClass(cssObj)
    \o fontStyleClass(cssObj) \o lineHeightClass(cssObj)
    \o letterSpacingClass(cssObj)

\* lines 437-498
fontSection(cssObj) ==
    fontSizeClass(cssObj) \o fontWeightClass(cssObj) \o lineHeightClass(cssObj)
    \o letterSpacingClass(cssObj) \o fontFamilyClass(cssObj)
    \o fontStyleClass(cssObj)

\* lines 500-601
boxSection(cssObj) ==
    spacingClasses(cssObj, 1)
    \o bracketClass(cssObj, "width", "w") \o bracketClass(cssObj, "height", "h")
    \o borderRadiusClass(cssObj)
    \o borderClasses(cssObj, 1, {})
    \o colorClass(cssObj, "background-color", "bg")
    \o bracketClass(cssObj, "opacity", "opacity")
    \o bracketClass(cssObj, "box-shadow", "shadow")

toTailwind(cssObj) == textSection(cssObj) \o fontSection(cssObj) \o boxSection(cssObj)

----------------------------------------------------------------------------
(* applyPrefixes, lines 606-612 *)

\* p.replace(/:$/, "") + ":"
ensureColon(p) == (IF endsWith(p, ":") THEN Take(p, Len(p) - 1) ELSE p) \o ":"

\* px.map((p) => `${p}${cls}`).join(" "), px being the array of line 609
prefixedClass(pxList, cls) == join([i \in 1..Len(pxList) |-> pxList[i] \o cls], " ")

applyPrefixes(classes, prefixStr) ==
    IF trim(prefixStr) = "" THEN join(classes, " ")
    ELSE LET parts == splitWs(prefixStr)
             pxList == [i \in 1..Len(parts) |-> ensureColon(parts[i])]
         IN  join([i \in 1..Len(classes) |-> prefixedClass(pxList, classes[i])], " ")

----------------------------------------------------------------------------
(* getClassPropertyType, lines 615-718 *)

null == "null"

\* /^\d+$/
RECURSIVE allDigits(_)
allDigits(s) ==
    Len(s) > 0 /\ Ch(s, 1) \in Digits /\ (Len(s) = 1 \/ allDigits(Drop(s, 1)))

\* line 623
fontSizeTokens ==
    {"xs", "sm", "base", "lg", "xl", "2xl", "3xl", "4xl", "5xl", "6xl", "7xl",
     "8xl", "9xl"}

\* line 671
colorNames ==
    {"red", "blue", "green", "yellow", "purple", "pink", "indigo", "gray",
     "slate", "zinc", "neutral", "stone", "amber", "orange", "lime", "emerald",
     "teal", "cyan", "sky", "violet", "fuchsia", "rose"}

\* line 713
spacingKeys ==
    {"m", "mt", "mb", "ml", "mr", "mx", "my", "p", "pt", "pb", "pl", "pr", "px", "py"}

\* /(px|rem|em)\]$/
unitBracketEnd(s) == endsWith(s, "px]") \/ endsWith(s, "rem]") \/ endsWith(s, "em]")

\* lines 617-619: className.split(":")[1] when the class holds a colon
cleanClassOf(className) ==
    IF includes(className, ":") THEN split(className, ":")[2] ELSE className

getClassPropertyType(className) ==
    LET cleanClass == cleanClassOf(className)
    IN  IF \E t \in fontSizeTokens : cleanClass = "text-" \o t THEN "font-size"
        ELSE IF startsWith(cleanClass, "text-[") /\ unitBracketEnd(cleanClass)
        THEN "font-size"
        ELSE IF startsWith(cleanClass, "font-") /\ ~startsWith(cleanClass, "font-[")
                /\ cleanClass # "font-italic" /\ cleanClass # "font-not-italic"
        THEN "font-weight"
        ELSE IF startsWith(cleanClass, "font-[") /\ endsWith(cleanClass, "]")
                /\ allDigits(SubSeq(cleanClass, 7, Len(cleanClass) - 1))
        THEN "font-weight"
        ELSE IF cleanClass = "italic" \/ cleanClass = "not-italic" THEN "font-style"
        ELSE IF startsWith(cleanClass, "leading-") THEN "line-height"
        ELSE IF startsWith(cleanClass, "tracking-") THEN "letter-spacing"
        ELSE IF startsWith(cleanClass, "underline")
                \/ startsWith(cleanClass, "line-through")
                \/ startsWith(cleanClass, "overline")
                \/ startsWith(cleanClass, "no-underline")
                \/ startsWith(cleanClass, "decoration-")
        THEN "text-decoration"
        ELSE IF cleanClass = "text-white" \/ cleanClass = "text-black"
                \/ \E c \in colorNames :
                       /\ startsWith(cleanClass, "text-" \o c \o "-")
                       /\ allDigits(Drop(cleanClass, Len(c) + 6))
        THEN "color"
        ELSE IF startsWith(cleanClass, "text-[") /\ ~unitBracketEnd(cleanClass)
        THEN "color"
        ELSE IF startsWith(cleanClass, "bg-") THEN "background-color"
        ELSE IF startsWith(cleanClass, "border")
                /\ ~startsWith(cleanClass, "border-radius")
        THEN "border"
        ELSE IF startsWith(cleanClass, "rounded") THEN "border-radius"
        ELSE IF startsWith(cleanClass, "w-") THEN "width"
        ELSE IF startsWith(cleanClass, "h-") THEN "height"
        ELSE IF startsWith(cleanClass, "opacity-") THEN "opacity"
        ELSE IF startsWith(cleanClass, "shadow-") THEN "box-shadow"
        ELSE IF \E k \in spacingKeys : startsWith(cleanClass, k \o "-") THEN "spacing"
        ELSE null

----------------------------------------------------------------------------
(* mergeClasses, lines 721-787 *)

\* lines 726-736: the Map from property type to the LAST existing class of it
RECURSIVE existingByPropertyOf(_, _)
existingByPropertyOf(existingList, map) ==
    IF Len(existingList) = 0 THEN map
    ELSE LET cls == Head(existingList)
             propertyType == getClassPropertyType(cls)
         IN  existingByPropertyOf(Tail(existingList),
                 IF propertyType # null THEN (propertyType :> cls) @@ map ELSE map)

\* a mutant of isPushed: without the test of line 756, the two classes are
\* always compared without their prefixes
isPushedNoPrefixTest(newClass, existingList, existingByProperty) ==
    LET propertyType == getClassPropertyType(newClass)
    IN  IF propertyType # null
        THEN IF truthy(existingByProperty, propertyType)
             THEN cleanClassOf(newClass)
                      # cleanClassOf(existingByProperty[propertyType])
             ELSE TRUE
        ELSE \A i \in 1..Len(existingList) : existingList[i] # newClass

\* lines 743-783: whether newClass is pushed onto merged
isPushed(newClass, existingList, existingByProperty) ==
    LET propertyType == getClassPropertyType(newClass)
    IN  IF propertyType # null
        THEN IF truthy(existingByProperty, propertyType)
             THEN LET existingClass == existingByProperty[propertyType]
                      newClassHasPrefix == includes(newClass, ":")
                      existingClassHasPrefix == includes(existingClass, ":")
                      newClassClean ==
                          IF newClassHasPrefix THEN split(newClass, ":")[2]
                          ELSE newClass
                      existingClassClean ==
                          IF existingClassHasPrefix THEN split(existingClass, ":")[2]
                          ELSE existingClass
                  IN  IF newClassHasPrefix # existingClassHasPrefix THEN TRUE
                      ELSE newClassClean # existingClassClean
             ELSE TRUE
        ELSE \A i \in 1..Len(existingList) : existingList[i] # newClass

\* a mutant of mergeClasses: a new class that is pushed replaces the existing
\* classes of its property type
mergeClassesReplacing(existingList, newClasses) ==
    LET existingByProperty == existingByPropertyOf(existingList, EmptyObj)
        pushed == SelectSeq(newClasses,
                            LAMBDA c : isPushed(c, existingList, existingByProperty))
        replaced(e) ==
            /\ getClassPropertyType(e) # null
            /\ \E i \in 1..Len(pushed) :
                   getClassPropertyType(pushed[i]) = getClassPropertyType(e)
    IN  SelectSeq(existingList, LAMBDA e : ~replaced(e)) \o pushed

\* lines 739-786: merged starts as a copy of existingClasses; the new classes
\* are tested against existingClasses and existingByProperty, never against merged
mergeClasses(existingList, newClasses) ==
    LET existingByProperty == existingByPropertyOf(existingList, EmptyObj)
    IN  existingList
        \o SelectSeq(newClasses,
                     LAMBDA c : isPushed(c, existingList, existingByProperty))

----------------------------------------------------------------------------
(* the `output` memo, lines 862-883 *)

\* s.split(/\s+/).map((c) => c.trim()).filter(Boolean)
classList(s) == filterBoolean(mapTrim(splitWs(s)))

outputOf(css, prefixStr, existing, dict) ==
    join(mergeClasses(classList(existing),
                      classList(applyPrefixes(toTailwind(parseCSS(css, dict)),
                                              prefixStr))),
         " ")

----------------------------------------------------------------------------
(* The dictionary and localStorage, lines 796-815 and 891-908.  The value   *)
(* varDict holds is described by its kind, its own keys in property order   *)
(* and the strings they are bound to, which is all parseCSS, Object.keys    *)
(* and the object spread read of it.                                        *)

STORAGE_KEY == "figma-tailwind-var-dict"

JSValue(t, keys, props) == [type |-> t, keys |-> keys, props |-> props]

\* {}
EmptyDict == JSValue("object", <<>>, EmptyObj)

\* what JSON.parse throws
SyntaxError == JSValue("SyntaxError", <<>>, EmptyObj)

\* JSON.stringify of a string without a character to escape
quoted(s) == "\"" \o s \o "\""

RECURSIVE members(_, _)
members(keys, props) ==
    IF Len(keys) = 0 THEN ""
    ELSE quoted(Head(keys)) \o ":" \o quoted(props[Head(keys)]) \o
         (IF Len(keys) = 1 THEN "" ELSE "," \o members(Tail(keys), props))

\* JSON.stringify(varDict) of an object with string values, line 814
JSONstringify(keys, props) == "{" \o members(keys, props) \o "}"

\* the character at position i, "" past the end
At(s, i) == IF 1 <= i /\ i <= Len(s) THEN Ch(s, i) ELSE ""

\* the position of the first character at or after i that is not white space
RECURSIVE skipWs(_, _)
skipWs(s, i) == IF IsWs(At(s, i)) THEN skipWs(s, i + 1) ELSE i

NoToken == [ok |-> FALSE, str |-> "", next |-> 0]

\* a JSON string without escapes that starts at position i
stringAt(s, i) ==
    LET j == indexFrom(s, "\"", i + 1)
    IN  IF At(s, i) # "\"" \/ j = 0 THEN NoToken
        ELSE [ok |-> TRUE, str |-> SubSeq(s, i + 1, j - 1), next |-> j + 1]

\* the length of the run of digits at position i
RECURSIVE digitRun(_, _)
digitRun(s, i) == IF At(s, i) \in Digits THEN 1 + digitRun(s, i + 1) ELSE 0

NoValue == [ok |-> FALSE, val |-> SyntaxError, next |-> 0]

\* the members of a JSON object after position i, all of them strings: a
\* repeated key keeps its place and takes the later value
RECURSIVE membersAt(_, _, _, _)
membersAt(s, i, keys, props) ==
    LET k == stringAt(s, i)
        c == skipWs(s, k.next)
        v == stringAt(s, skipWs(s, c + 1))
        e == skipWs(s, v.next)
        keys2 == IF k.str \in DOMAIN props THEN keys ELSE Append(keys, k.str)
        props2 == (k.str :> v.str) @@ props
    IN  IF ~k.ok \/ At(s, c) # ":" \/ ~v.ok THEN NoValue
        ELSE IF At(s, e) = "}"
        THEN [ok |-> TRUE, val |-> JSValue("object", keys2, props2),
              next |-> e + 1]
        ELSE IF At(s, e) = ","
        THEN membersAt(s, skipWs(s, e + 1), keys2, props2)
        ELSE NoValue

\* the elements of a JSON array after position i, all of them strings: the
\* own keys of an array are its indices
RECURSIVE elementsAt(_, _, _, _)
elementsAt(s, i, keys, props) ==
    LET v == stringAt(s, i)
        e == skipWs(s, v.next)
        keys2 == Append(keys, ToString(Len(keys)))
        props2 == (ToString(Len(keys)) :> v.str) @@ props
    IN  IF ~v.ok THEN NoValue
        ELSE IF At(s, e) = "]"
        THEN [ok |-> TRUE, val |-> JSValue("array", keys2, props2),
              next |-> e + 1]
        ELSE IF At(s, e) = ","
        THEN elementsAt(s, skipWs(s, e + 1), keys2, props2)
        ELSE NoValue

\* the text `lit` stands at position i
literalAt(s, i, lit) ==
    i + Len(lit) - 1 <= Len(s) /\ SubSeq(s, i, i + Len(lit) - 1) = lit

\* the own keys of a string are the indices of its characters
charsOf(str) ==
    JSValue("string", [i \in 1..Len(str) |-> ToString(i - 1)],
            [k \in {ToString(i - 1) : i \in 1..Len(str)} |->
                 Ch(str, CHOOSE i \in 1..Len(str) : ToString(i - 1) = k)])

\* the JSON value that starts at position i: null, true, false, a natural
\* number, a string, an array of strings or an object of strings
valueAt(s, i) ==
    LET c == At(s, i)
        n == digitRun(s, i)
        str == stringAt(s, i)
        open == skipWs(s, i + 1)
    IN  IF literalAt(s, i, "null")
        THEN [ok |-> TRUE, val |-> JSValue("null", <<>>, EmptyObj), next |-> i + 4]
        ELSE IF literalAt(s, i, "true")
        THEN [ok |-> TRUE, val |-> JSValue("boolean", <<>>, EmptyObj), next |-> i + 4]
        ELSE IF literalAt(s, i, "false")
        THEN [ok |-> TRUE, val |-> JSValue("boolean", <<>>, EmptyObj), next |-> i + 5]
        ELSE IF n > 0
        THEN IF n > 1 /\ c = "0" THEN NoValue
             ELSE [ok |-> TRUE, val |-> JSValue("number", <<>>, EmptyObj),
                   next |-> i + n]
        ELSE IF c = "\""
        THEN IF str.ok THEN [ok |-> TRUE, val |-> charsOf(str.str), next |-> str.next]
             ELSE NoValue
        ELSE IF c = "["
        THEN IF At(s, open) = "]"
             THEN [ok |-> TRUE, val |-> JSValue("array", <<>>, EmptyObj),
                   next |-> open + 1]
             ELSE elementsAt(s, open, <<>>, EmptyObj)
        ELSE IF c = "{"
        THEN IF At(s, open) = "}"
             THEN [ok |-> TRUE, val |-> EmptyDict, next |-> open + 1]
             ELSE membersAt(s, open, <<>>, EmptyObj)
        ELSE NoValue

\* JSON.parse(text), line 801: the value, or SyntaxError when text is not one
\* JSON value between optional white space
JSONparse(text) ==
    LET r == valueAt(text, skipWs(text, 1))
    IN  IF r.ok /\ skipWs(text, r.next) > Len(text) THEN r.val ELSE SyntaxError

\* the lazy initial state of varDict in the browser, lines 796-807
loadVarDict(localStorage) ==
    IF truthy(localStorage, STORAGE_KEY)
    THEN LET value == JSONparse(localStorage[STORAGE_KEY])
         IN  IF value.type = "SyntaxError" THEN EmptyDict ELSE value
    ELSE EmptyDict

\* localStorage.setItem(STORAGE_KEY, text), line 814
setItem(localStorage, text) == (STORAGE_KEY :> text) @@ localStorage

\* newVarKey.trim() && newVarValue.trim(), line 892
accepted(key, value) == trim(key) # "" /\ trim(value) # ""

\* the keys and the values of { ...prev, [key.trim()]: value.trim() },
\* lines 893-896: an own key keeps its place
addedKeys(keys, props, key) ==
    IF trim(key) \in DOMAIN props THEN keys ELSE Append(keys, trim(key))

addedPropsUntrimmed(props, key, value) == (key :> value) @@ props

addedProps(props, key, value) == (trim(key) :> trim(value)) @@ props

\* the keys and the values of the copy without `key`, lines 904-906
removedKeys(keys, key) == SelectSeq(keys, LAMBDA k : k # key)

removedProps(props, key) == [k \in DOMAIN props \ {key} |-> props[k]]

----------------------------------------------------------------------------
(* The inputs.  A line of CSS text is written from a property name and a     *)
(* value made of segments: literal text, or a var() reference of which the  *)
(* name and the fallback are known because the line was built from them.    *)

Lit(t) == [kind |-> "lit", text |-> t, name |-> "", fb |-> ""]

\* a reference written `text`, whose name is `name` and whose fallback,
\* without its quotes and padding, is `fb`
VarAs(t, name, fb) == [kind |-> "var", text |-> t, name |-> name, fb |-> fb]

Var(name, fb) == VarAs("var(" \o name \o ", " \o fb \o ")", name, fb)

RECURSIVE Rendered(_)
Rendered(segs) ==
    IF Len(segs) = 0 THEN "" ELSE Head(segs).text \o Rendered(Tail(segs))

\* a well-formed line written `text`: property `prop`, value `segs`
DeclAs(t, prop, segs) == [wf |-> TRUE, text |-> t, prop |-> prop, segs |-> segs]

Decl(prop, segs) == DeclAs(prop \o ": " \o Rendered(segs) \o ";", prop, segs)

Plain(prop, value) == Decl(prop, <<Lit(value)>>)

\* a line that is not of the shape `property: value;`
Junk(t) == [wf |-> FALSE, text |-> t, prop |-> "", segs |-> <<>>]

\* the dictionaries: empty, and one as the placeholders of lines 951 and 963
\* suggest
UserDict ==
    ("--Heading-Font" :> "mackinac") @@ ("--Border-Medium" :> "gray-400") @@
    ("--Body-Font" :> "font-serif") @@ ("--Brand" :> "red-500")

DictPool == {EmptyObj, UserDict}

\* the keys of the dictionaries of the model, in the order they were added
AllKeys ==
    <<"--Heading-Font", "--Border-Medium", "--Body-Font", "--Brand", "--Gap">>

KeysIn(dict) == SelectSeq(AllKeys, LAMBDA k : k \in DOMAIN dict)

\* varDict is an object loaded and persisted long since, and its form is empty
Settled ==
    /\ varDictType = "object"
    /\ varDictKeys = KeysIn(varDict)
    /\ newVarKey = ""
    /\ newVarValue = ""
    /\ storage = setItem(EmptyObj, JSONstringify(varDictKeys, varDict))
    /\ pendingEffect = <<>>

\* lines for the parser: var() references alone, several per value, padded
\* and quoted; duplicates of a property; lines of another shape
ParsePool ==
    << Decl("color", <<Var("--Heading-Font", "#272727")>>),
       DeclAs("  color : red ;", "color", <<Lit("red ")>>),
       DeclAs("border:var(--w,2px) solid var( --Brand , 'red' );", "border",
              << VarAs("var(--w,2px)", "--w", "2px"), Lit(" solid "),
                 VarAs("var( --Brand , 'red' )", "--Brand", "red") >>),
       Decl("font-family",
            <<VarAs("var(--Heading-Font, \"Queens Trial\")", "--Heading-Font",
                    "Queens Trial")>>),
       Decl("box-shadow",
            << Lit("0 1px "), Var("--Brand", "#000"), Lit(", 0 2px "),
               Var("--Brand", "#000"), Lit(" inset") >>),
       Junk("color: blue"),
       Junk("font size: 12px;"),
       Junk("  ") >>

\* lines for the mapper, one per property
OrderPool ==
    << Decl("color", <<Var("--Brand", "#272727")>>),
       Plain("text-align", "center"),
       Plain("text-decoration-line", "underline"),
       Plain("text-decoration-style", "wavy"),
       Plain("text-decoration-skip-ink", "auto"),
       Plain("text-decoration-thickness", "2px"),
       Plain("text-underline-offset", "2px"),
       Plain("text-underline-position", "under"),
       Plain("font-size", "16px"),
       Plain("font-weight", "450"),
       Plain("line-height", "1.5"),
       Plain("letter-spacing", "0.5px"),
       Decl("font-family", <<Var("--Heading-Font", "Inter")>>),
       Plain("font-style", "italic"),
       Plain("margin", "4px"),
       Plain("padding-left", "8px"),
       Decl("width", <<Var("--Brand", "100px")>>),
       Plain("height", "40px"),
       Plain("border-radius", "8px"),
       Decl("border", <<Lit("1px solid "), Var("--Border-Medium", "#ABABAB")>>),
       Plain("border-top", "2px solid red"),
       Decl("background-color", <<Var("--Brand", "#fff")>>),
       Plain("opacity", "0.5"),
       Plain("box-shadow", "none") >>

\* further values of these properties, on and off the tables
ValuePool ==
    << Decl("color", <<Var("--Text", "#272727")>>),
       Plain("text-align", "inherit"),
       Plain("text-decoration-line", "none"),
       Plain("text-decoration-line", "blink"),
       Plain("text-decoration-style", "solid"),
       Plain("text-decoration-style", "groove"),
       Plain("text-decoration-skip-ink", "none"),
       Plain("text-decoration-skip-ink", "all"),
       Plain("text-decoration-thickness", "3px"),
       Plain("text-underline-offset", "auto"),
       Plain("text-underline-position", "from-font"),
       Plain("text-underline-position", "auto"),
       Plain("font-size", "15px"),
       Plain("font-size", "1rem"),
       Plain("font-weight", "400"),
       Plain("line-height", "24px"),
       Plain("letter-spacing", "0.05em"),
       Decl("font-family", <<Var("--Body-Font", "Georgia")>>),
       Plain("font-family", "Inter"),
       Plain("font-style", "normal"),
       Plain("font-style", "oblique"),
       Plain("border-radius", "4px"),
       Plain("border-bottom", "0 none transparent") >>

MaxParseLines == 3
MaxMapLines == 2

\* the sequences of at most n lines of a pool
LinesOf(pool, n) ==
    UNION {[1..k -> {pool[i] : i \in 1..Len(pool)}] : k \in 0..n}

\* the text of the lines, one per line of the text area
TextOf(lines) == join([i \in 1..Len(lines) |-> lines[i].text], "\n")

----------------------------------------------------------------------------
(* The computation of `output`, lines 862-883, call by call *)

callParseCSS ==
    /\ pc = "parse"
    /\ parsed' = parseCSS(cssInput, varDict)
    /\ pc' = "map"
    /\ UNCHANGED <<cssInput, prefixes, existingClasses, varDict, tw, withPxStr,
                   merged, output, typed, store>>

callToTailwind ==
    /\ pc = "map"
    /\ tw' = toTailwind(parsed)
    /\ pc' = "prefix"
    /\ UNCHANGED <<cssInput, prefixes, existingClasses, varDict, parsed,
                   withPxStr, merged, output, typed, store>>

callApplyPrefixes ==
    /\ pc = "prefix"
    /\ withPxStr' = applyPrefixes(tw, prefixes)
    /\ pc' = "merge"
    /\ UNCHANGED <<cssInput, prefixes, existingClasses, varDict, parsed, tw,
                   merged, output, typed, store>>

callMergeClasses ==
    /\ pc = "merge"
    /\ merged' = mergeClasses(classList(existingClasses), classList(withPxStr))
    /\ output' = join(merged', " ")
    /\ pc' = "done"
    /\ UNCHANGED <<cssInput, prefixes, existingClasses, varDict, parsed, tw,
                   withPxStr, typed, store>>

\* nothing computed yet
Blank ==
    /\ parsed = EmptyObj
    /\ tw = <<>>
    /\ withPxStr = ""
    /\ merged = <<>>
    /\ output = ""

\* the inputs of the parser and of the mapper
ConvertInputs ==
    (LinesOf(ParsePool, MaxParseLines) \X DictPool)
    \cup ((LinesOf(OrderPool, MaxMapLines) \cup LinesOf(ValuePool, 1)) \X {UserDict})

(* parseCSS then toTailwind *)
InitConvert ==
    /\ \E in \in ConvertInputs : typed = in[1] /\ varDict = in[2]
    /\ Settled
    /\ cssInput = TextOf(typed)
    /\ prefixes = ""
    /\ existingClasses = ""
    /\ Blank
    /\ pc = "parse"

NextConvert == callParseCSS \/ callToTailwind

SpecConvert == InitConvert /\ [][NextConvert]_vars

----------------------------------------------------------------------------
(* What the typed lines say, read off their structure *)

\* the properties of the well-formed lines
TypedProps == {typed[i].prop : i \in {j \in 1..Len(typed) : typed[j].wf}}

\* the position of the last well-formed line of property p
LastOf(p) ==
    CHOOSE i \in 1..Len(typed) :
        /\ typed[i].wf /\ typed[i].prop = p
        /\ \A j \in (i + 1)..Len(typed) : ~(typed[j].wf /\ typed[j].prop = p)

\* a segment on its own: the dictionary value under the marker when the name
\* is a key of the dictionary, else the fallback; literal text as it is
ResolvedSeg(seg, dict) ==
    IF seg.kind = "lit" THEN seg.text
    ELSE IF seg.name \in DOMAIN dict THEN "__DICT__" \o dict[seg.name]
    ELSE seg.fb

RECURSIVE Resolved(_, _)
Resolved(segs, dict) ==
    IF Len(segs) = 0 THEN ""
    ELSE ResolvedSeg(Head(segs), dict) \o Resolved(Tail(segs), dict)

VarSegs(line) == {k \in 1..Len(line.segs) : line.segs[k].kind = "var"}

\* C1: once parsed, the value of every declared property is the value of its
\* line with each var() reference replaced, in place and on its own, by the
\* dictionary value under the marker or by its unquoted fallback, the text
\* around the references kept
C1_EveryVarResolved ==
    pc # "parse" =>
        \A p \in TypedProps :
            /\ p \in DOMAIN parsed
            /\ parsed[p] = Resolved(typed[LastOf(p)].segs, varDict)

\* a value with two references, one found in the dictionary and one not, parsed
C1_Witness ==
    /\ pc = "map"
    /\ \E p \in TypedProps :
           LET line == typed[LastOf(p)]
           IN  /\ \E k \in VarSegs(line) : line.segs[k].name \in DOMAIN varDict
               /\ \E k \in VarSegs(line) : line.segs[k].name \notin DOMAIN varDict
               /\ parsed[p] = "2px solid __DICT__red-500"

\* C2: the parsed mapping holds exactly the properties of the well-formed
\* lines, each bound to what its last well-formed line alone parses to
C2_LastLineWins ==
    pc # "parse" =>
        /\ DOMAIN parsed = TypedProps
        /\ \A p \in TypedProps :
               parsed[p] = parseCSS(typed[LastOf(p)].text, varDict)[p]

\* two well-formed lines of one property with different values, and a line of
\* another shape, parsed
C2_Witness ==
    /\ pc = "map"
    /\ \E i, j, k \in 1..Len(typed) :
           /\ i < j /\ typed[i].wf /\ typed[j].wf /\ ~typed[k].wf
           /\ typed[i].prop = typed[j].prop
           /\ parsed[typed[j].prop] # parseCSS(typed[i].text, varDict)[typed[i].prop]

----------------------------------------------------------------------------
(* The mapper's output *)

\* class c is among the generated classes
Emitted(c) == \E i \in 1..Len(tw) : tw[i] = c

\* the font sizes of the table of lines 309-323, as declared in CSS
TableSizes == {k \o "px" : k \in DOMAIN fontSizeMap}

\* C3: font-size and font-weight emit the token class exactly for a value of
\* the table, and for every other value the bracket form around the declared
\* value unchanged
C3_ScaleLookupExact ==
    pc = "prefix" =>
        /\ truthy(parsed, "font-size") =>
               LET v == parsed["font-size"]
               IN  IF v \in TableSizes
                   THEN Emitted("text-" \o fontSizeMap[Take(v, Len(v) - 2)])
                   ELSE Emitted("text-[" \o v \o "]")
        /\ truthy(parsed, "font-weight") =>
               LET v == parsed["font-weight"]
               IN  IF v \in DOMAIN fontWeightMap
                   THEN Emitted("font-" \o fontWeightMap[v])
                   ELSE Emitted("font-[" \o v \o "]")

\* the dictionary values the last line of property p was resolved to
DictValuesOf(p) ==
    LET line == typed[LastOf(p)]
    IN  {varDict[line.segs[k].name] :
             k \in {j \in VarSegs(line) : line.segs[j].name \in DOMAIN varDict}}

\* C4: a value substituted from the dictionary is emitted as it is, in a class
\* without brackets; font-family emits font-<value>, or the value itself when
\* it begins with font-
C4_DictValueUnbracketed ==
    pc = "prefix" =>
        \A p \in TypedProps : \A d \in DictValuesOf(p) :
            /\ \E i \in 1..Len(tw) : includes(tw[i], d)
            /\ \A i \in 1..Len(tw) : includes(tw[i], d) => ~includes(tw[i], "[")
            /\ p = "font-family" =>
                   Emitted(IF startsWith(d, "font-") THEN d ELSE "font-" \o d)

\* the enumerated keyword properties
KeywordProps ==
    {"text-align", "font-style", "text-decoration-line", "text-decoration-style",
     "text-decoration-skip-ink", "text-underline-position"}

\* the dedicated class of a known keyword, <<>> for a keyword with none
DedicatedClass(p, v) ==
    IF p = "font-style" /\ v = "italic" THEN <<"italic">>
    ELSE IF p = "font-style" /\ v = "normal" THEN <<"not-italic">>
    ELSE IF p = "text-decoration-line" /\ v \in {"underline", "line-through", "overline"}
    THEN <<v>>
    ELSE IF p = "text-decoration-line" /\ v = "none" THEN <<"no-underline">>
    ELSE IF p = "text-decoration-style" /\ v \in {"double", "dotted", "dashed", "wavy"}
    THEN <<"decoration-" \o v>>
    ELSE IF p = "text-decoration-skip-ink" /\ v = "auto" THEN <<"decoration-skip-ink">>
    ELSE IF p = "text-decoration-skip-ink" /\ v = "none"
    THEN <<"decoration-skip-ink-none">>
    ELSE <<>>

\* the values that are the default, for which nothing is emitted
IsDefault(p, v) ==
    \/ p = "text-decoration-style" /\ v = "solid"
    \/ p = "text-underline-position" /\ v \in {"auto", "from-font"}

\* the bracket or arbitrary-property form of value v of property p
BracketForm(p, v) ==
    IF p = "font-style" THEN <<"font-[" \o v \o "]">>
    ELSE IF p = "text-decoration-line" \/ p = "text-decoration-style"
    THEN <<"decoration-[" \o v \o "]">>
    ELSE IF p = "text-decoration-skip-ink" THEN <<"decoration-skip-ink-[" \o v \o "]">>
    ELSE <<"[" \o p \o ":" \o v \o "]">>

\* the text-align keywords
AlignKeywords == {"left", "center", "right", "justify", "start", "end"}

\* C5 as stated: of any of the six properties a known keyword gives its class,
\* a default nothing, and every other keyword a bracket form
C5_UnknownKeywordBracketed ==
    pc = "prefix" =>
        \A p \in KeywordProps :
            (DOMAIN parsed = {p} /\ parsed[p] # "") =>
                LET v == parsed[p]
                IN  tw = IF p = "text-align" /\ v \in AlignKeywords THEN <<"text-" \o v>>
                         ELSE IF IsDefault(p, v) THEN <<>>
                         ELSE IF DedicatedClass(p, v) # <<>> THEN DedicatedClass(p, v)
                         ELSE BracketForm(p, v)

\* C5 as amended: text-align emits text-<value> for every value; of the five
\* other properties a known keyword gives its class, a default nothing, and
\* every other keyword a bracket form
C5_KeywordClasses ==
    pc = "prefix" =>
        \A p \in KeywordProps :
            (DOMAIN parsed = {p} /\ parsed[p] # "") =>
                LET v == parsed[p]
                IN  tw = IF p = "text-align" THEN <<"text-" \o v>>
                         ELSE IF IsDefault(p, v) THEN <<>>
                         ELSE IF DedicatedClass(p, v) # <<>> THEN DedicatedClass(p, v)
                         ELSE BracketForm(p, v)

\* a text-align keyword off the list, mapped; a default, mapped to nothing
C5_Witness ==
    /\ pc = "prefix"
    /\ \/ parsed = ("text-align" :> "inherit") /\ tw = <<"text-inherit">>
       \/ parsed = ("text-decoration-style" :> "solid") /\ tw = <<>>

\* cssObj with only the properties of `props`
Restrict(cssObj, props) == [q \in DOMAIN cssObj \cap props |-> cssObj[q]]

BorderProps ==
    {"border", "border-top", "border-bottom", "border-left", "border-right"}

\* the properties in the order the mapper emits their classes; the border
\* properties are one place, their style class being shared
EmissionOrder ==
    << {"color"}, {"text-align"}, {"text-decoration-line"},
       {"text-decoration-style"}, {"text-decoration-skip-ink"},
       {"text-decoration-thickness"}, {"text-underline-offset"},
       {"text-underline-position"},
       {"font-size"}, {"font-weight"}, {"line-height"}, {"letter-spacing"},
       {"font-family"}, {"font-style"},
       {"margin"}, {"margin-top"}, {"margin-bottom"}, {"margin-left"},
       {"margin-right"}, {"padding"}, {"padding-top"}, {"padding-bottom"},
       {"padding-left"}, {"padding-right"},
       {"width"}, {"height"}, {"border-radius"}, BorderProps,
       {"background-color"}, {"opacity"}, {"box-shadow"} >>

\* the order as C6 states it: font family, size, weight, style, line-height,
\* letter-spacing
ClaimedOrder ==
    << {"color"}, {"text-align"}, {"text-decoration-line"},
       {"text-decoration-style"}, {"text-decoration-skip-ink"},
       {"text-decoration-thickness"}, {"text-underline-offset"},
       {"text-underline-position"},
       {"font-family"}, {"font-size"}, {"font-weight"}, {"font-style"},
       {"line-height"}, {"letter-spacing"},
       {"margin"}, {"margin-top"}, {"margin-bottom"}, {"margin-left"},
       {"margin-right"}, {"padding"}, {"padding-top"}, {"padding-bottom"},
       {"padding-left"}, {"padding-right"},
       {"width"}, {"height"}, {"border-radius"}, BorderProps,
       {"background-color"}, {"opacity"}, {"box-shadow"} >>

\* the classes of each place of `order` in turn
RECURSIVE InOrder(_, _, _)
InOrder(cssObj, order, i) ==
    IF i > Len(order) THEN <<>>
    ELSE toTailwind(Restrict(cssObj, order[i])) \o InOrder(cssObj, order, i + 1)

\* C6 as stated: whatever the order of the lines, the classes come out in the
\* order text, font family, size, weight, style, line-height, letter-spacing,
\* spacing, size, border-radius, border, background, opacity, shadow
C6_ClaimedOrder == pc = "prefix" => tw = InOrder(parsed, ClaimedOrder, 1)

\* C6 as amended: whatever the order of the lines, the classes come out in the
\* order text, font size, weight, line-height, letter-spacing, family, style,
\* spacing, size, border-radius, border, background, opacity, shadow
C6_EmissionOrder == pc = "prefix" => tw = InOrder(parsed, EmissionOrder, 1)

\* font-family typed before font-size, and mapped after it
C6_Witness ==
    /\ pc = "prefix"
    /\ Len(typed) = 2
    /\ typed[1].prop = "font-family" /\ typed[2].prop = "font-size"
    /\ tw = <<"text-base", "font-mackinac">>

----------------------------------------------------------------------------
(* applyPrefixes alone *)

\* classes for the prefix applier and the merger
ClassPool ==
    << "text-sm", "text-lg", "lg:text-sm", "md:text-sm", "md:text-lg",
       "font-bold", "flex" >>

\* prefix strings: none, blank, one, several, with colons, padded
PrefixPool ==
    {"", "  ", "lg", "lg hover", "lg:", "sm  hover: focus", "lg ", " lg", "lg::"}

MaxClasses == 2

\* the lists of at most n classes of the pool
ClassesOf(n) ==
    UNION {[1..k -> {ClassPool[i] : i \in 1..Len(ClassPool)}] : k \in 0..n}

InitPrefix ==
    /\ tw \in ClassesOf(MaxClasses)
    /\ prefixes \in PrefixPool
    /\ cssInput = ""
    /\ existingClasses = ""
    /\ varDict = EmptyObj
    /\ typed = <<>>
    /\ Settled
    /\ parsed = EmptyObj
    /\ withPxStr = ""
    /\ merged = <<>>
    /\ output = ""
    /\ pc = "prefix"

NextPrefix == callApplyPrefixes

SpecPrefix == InitPrefix /\ [][NextPrefix]_vars

\* s without its trailing colons
RECURSIVE NoTrailingColon(_)
NoTrailingColon(s) ==
    IF Len(s) > 0 /\ Ch(s, Len(s)) = ":" THEN NoTrailingColon(Take(s, Len(s) - 1))
    ELSE s

\* the white-space separated words of s, in order
RECURSIVE Words(_)
Words(s) ==
    LET t == Drop(s, wsRun(s))
        i == firstWs(t, 1)
    IN  IF t = "" THEN <<>>
        ELSE IF i = 0 THEN <<t>>
        ELSE <<Take(t, i - 1)>> \o Words(Drop(t, i))

\* the prefixes of a prefix string, each ending in exactly one colon
PrefixList(s) == [i \in 1..Len(Words(s)) |-> NoTrailingColon(Words(s)[i]) \o ":"]

\* the cross product of classes and prefixes, class by class, the prefixes in
\* their order
RECURSIVE Cross(_, _)
Cross(classes, pre) ==
    IF Len(classes) = 0 THEN <<>>
    ELSE [i \in 1..Len(pre) |-> pre[i] \o Head(classes)] \o Cross(Tail(classes), pre)

\* C7: the result is the cross product of the classes with the white-space
\* separated prefixes, each prefix ending in exactly one colon, so it holds
\* |classes| x |prefixes| entries; with no prefix it is the classes themselves
C7_CrossProduct ==
    pc = "merge" =>
        LET pre == PrefixList(prefixes)
        IN  IF Len(pre) = 0 THEN withPxStr = join(tw, " ")
            ELSE /\ withPxStr = join(Cross(tw, pre), " ")
                 /\ Len(classList(withPxStr)) = Len(tw) * Len(pre)

----------------------------------------------------------------------------
(* mergeClasses alone *)

MaxExisting == 2
MaxNew == 2

InitMerge ==
    /\ \E e \in ClassesOf(MaxExisting), n \in ClassesOf(MaxNew) :
           /\ existingClasses = join(e, " ")
           /\ withPxStr = join(n, " ")
    /\ cssInput = ""
    /\ prefixes = ""
    /\ varDict = EmptyObj
    /\ typed = <<>>
    /\ Settled
    /\ parsed = EmptyObj
    /\ tw = <<>>
    /\ merged = <<>>
    /\ output = ""
    /\ pc = "merge"

NextMerge == callMergeClasses

SpecMerge == InitMerge /\ [][NextMerge]_vars

\* the two lists handed to mergeClasses, lines 868-877
existingClassesList == classList(existingClasses)
newClassesList == classList(withPxStr)

\* what follows the existing classes in merged
Appended == SubSeq(merged, Len(existingClassesList) + 1, Len(merged))

\* a is b with some elements left out
RECURSIVE IsSubsequence(_, _)
IsSubsequence(a, b) ==
    IF Len(a) = 0 THEN TRUE
    ELSE IF Len(b) = 0 THEN FALSE
    ELSE IF Head(a) = Head(b) THEN IsSubsequence(Tail(a), Tail(b))
    ELSE IsSubsequence(a, Tail(b))

\* C8: the merged list starts with the existing list unchanged, and what
\* follows is taken from the new list in the new list's order
C8_ExistingKept ==
    pc = "done" =>
        /\ Len(merged) >= Len(existingClassesList)
        /\ SubSeq(merged, 1, Len(existingClassesList)) = existingClassesList
        /\ IsSubsequence(Appended, newClassesList)

\* two existing and two new classes, one new class dropped and one appended
C8_Witness ==
    /\ pc = "done"
    /\ Len(existingClassesList) = 2
    /\ Len(newClassesList) = 2
    /\ Len(merged) = 3

\* the number of times c occurs in list a
Count(a, c) == Cardinality({i \in 1..Len(a) : a[i] = c})

\* the existing classes of property type t
SameType(t) ==
    {i \in 1..Len(existingClassesList) :
         getClassPropertyType(existingClassesList[i]) = t}

\* c without its variant prefix
Unprefixed(c) == IF includes(c, ":") THEN Drop(c, indexOf(c, ":")) ELSE c

\* C9: a classified new class with no existing class of its type is appended;
\* with exactly one, it is appended when just one of the two holds a colon,
\* and otherwise when the two differ without their prefixes, else dropped
C9_SingleConflictRule ==
    pc = "done" =>
        \A j \in 1..Len(newClassesList) :
            LET c == newClassesList[j]
                t == getClassPropertyType(c)
                kept == Count(Appended, c) = Count(newClassesList, c)
                dropped == Count(Appended, c) = 0
            IN  /\ (t # null /\ SameType(t) = {}) => kept
                /\ (t # null /\ Cardinality(SameType(t)) = 1) =>
                       LET e == existingClassesList[CHOOSE i \in SameType(t) : TRUE]
                       IN  IF includes(c, ":") # includes(e, ":") THEN kept
                           ELSE IF Unprefixed(c) # Unprefixed(e) THEN kept
                           ELSE dropped

\* existing text-sm font-bold and new text-lg give text-sm font-bold text-lg
C9_Witness ==
    /\ pc = "done"
    /\ existingClassesList = <<"text-sm", "font-bold">>
    /\ newClassesList = <<"text-lg">>
    /\ merged = <<"text-sm", "font-bold", "text-lg">>

----------------------------------------------------------------------------
(* The whole computation of `output` *)

\* lines whose classes share a property type, and lines whose classes do not
GenPool ==
    << Decl("color", <<Var("--Heading-Font", "#272727")>>),
       Plain("font-size", "16px"),
       Plain("margin", "4px"),
       Plain("padding-left", "8px"),
       Plain("border", "1px solid #ABABAB") >>

GenPrefixes == {"", "lg", "lg hover"}

\* what the inputs generate before the merge
Generated(css, prefixStr, dict) ==
    applyPrefixes(toTailwind(parseCSS(css, dict)), prefixStr)

\* the existing classes are none, the example of line 926, or the generated
\* classes themselves
Init ==
    /\ typed \in LinesOf(GenPool, MaxMapLines)
    /\ cssInput = TextOf(typed)
    /\ prefixes \in GenPrefixes
    /\ varDict \in DictPool
    /\ Settled
    /\ existingClasses \in {"", "text-sm font-bold",
                            Generated(cssInput, prefixes, varDict)}
    /\ Blank
    /\ pc = "parse"

Next == callParseCSS \/ callToTailwind \/ callApplyPrefixes \/ callMergeClasses

Spec == Init /\ [][Next]_vars

\* C10: merging a generated class list into itself yields the list unchanged
C10_MergeIdempotent ==
    (pc = "done" /\ existingClassesList = newClassesList) =>
        merged = existingClassesList

----------------------------------------------------------------------------
(* The component, lines 789-908: the inputs, the dictionary form, the       *)
(* persistence effect, and the render that follows each change of state     *)

\* useMemo, line 883, with parseCSS of useCallback, line 859: a dependency
\* differs from the last render's; parseCSS is another function in the
\* render that follows a call of setVarDict
depsChangedNoDict(css, pre, ex, newParseCSS) ==
    css # cssInput \/ pre # prefixes \/ ex # existingClasses

depsChanged(css, pre, ex, newParseCSS) ==
    css # cssInput \/ pre # prefixes \/ ex # existingClasses \/ newParseCSS

\* the `output` of the render with these values of the state, lines 862-883
render(css, pre, ex, props, newParseCSS) ==
    IF depsChanged(css, pre, ex, newParseCSS)
    THEN /\ parsed' = parseCSS(css, props)
         /\ tw' = toTailwind(parsed')
         /\ withPxStr' = applyPrefixes(tw', pre)
         /\ merged' = mergeClasses(classList(ex), classList(withPxStr'))
         /\ output' = join(merged', " ")
    ELSE UNCHANGED <<parsed, tw, withPxStr, merged, output>>

\* useEffect, lines 813-815: the render in which varDict is another object
\* leaves an effect that writes this varDict
effectOfStale(keys, props, newDict) ==
    IF newDict THEN <<[keys |-> varDictKeys, props |-> varDict]>> ELSE <<>>

effectOf(keys, props, newDict) ==
    IF newDict THEN <<[keys |-> keys, props |-> props]>> ELSE <<>>

\* localStorage once the effect left by the last render has run, as it has
\* before the next render
flushed ==
    IF pendingEffect = <<>> THEN storage
    ELSE setItem(storage, JSONstringify(Head(pendingEffect).keys,
                                        Head(pendingEffect).props))

\* the effect runs, line 814
runEffect ==
    /\ pendingEffect # <<>>
    /\ storage' = flushed
    /\ pendingEffect' = <<>>
    /\ UNCHANGED <<cssInput, prefixes, existingClasses, varDict, parsed, tw,
                   withPxStr, merged, output, pc, typed, varDictType,
                   varDictKeys, newVarKey, newVarValue>>

\* what is typed in the inputs
CssPool ==
    { <<>>,
      <<Decl("color", <<Var("--Brand", "#272727")>>)>>,
      <<Decl("width", <<Var("--Gap", "10px")>>)>> }

PrefixInputs == {"", "lg"}

ExistingInputs == {"", "text-sm"}

KeyInputs == {" ", " --Brand ", "--Gap"}

ValueInputs == {"  ", "red-500", " blue-500 "}

\* onChange of the CSS text area, line 920
setCssInput(lines) ==
    /\ TextOf(lines) # cssInput
    /\ cssInput' = TextOf(lines)
    /\ typed' = lines
    /\ storage' = flushed
    /\ pendingEffect' = <<>>
    /\ render(cssInput', prefixes, existingClasses, varDict, FALSE)
    /\ UNCHANGED <<prefixes, existingClasses, varDict, pc, varDictType,
                   varDictKeys, newVarKey, newVarValue>>

\* onChange of the existing-classes input, line 928
setExistingClasses(text) ==
    /\ text # existingClasses
    /\ existingClasses' = text
    /\ storage' = flushed
    /\ pendingEffect' = <<>>
    /\ render(cssInput, prefixes, existingClasses', varDict, FALSE)
    /\ UNCHANGED <<cssInput, prefixes, varDict, pc, typed, varDictType,
                   varDictKeys, newVarKey, newVarValue>>

\* onChange of the prefix input, line 936
setPrefixes(text) ==
    /\ text # prefixes
    /\ prefixes' = text
    /\ storage' = flushed
    /\ pendingEffect' = <<>>
    /\ render(cssInput, prefixes', existingClasses, varDict, FALSE)
    /\ UNCHANGED <<cssInput, existingClasses, varDict, pc, typed, varDictType,
                   varDictKeys, newVarKey, newVarValue>>

\* onChange of the variable-name input, line 953
setNewVarKey(text) ==
    /\ text # newVarKey
    /\ newVarKey' = text
    /\ storage' = flushed
    /\ pendingEffect' = <<>>
    /\ UNCHANGED <<cssInput, prefixes, existingClasses, varDict, parsed, tw,
                   withPxStr, merged, output, pc, typed, varDictType,
                   varDictKeys, newVarValue>>

\* onChange of the Tailwind-value input, line 965
setNewVarValue(text) ==
    /\ text # newVarValue
    /\ newVarValue' = text
    /\ storage' = flushed
    /\ pendingEffect' = <<>>
    /\ UNCHANGED <<cssInput, prefixes, existingClasses, varDict, parsed, tw,
                   withPxStr, merged, output, pc, typed, varDictType,
                   varDictKeys, newVarKey>>

\* the Add button or Enter in the form, lines 891-900
addVarMapping ==
    /\ IF accepted(newVarKey, newVarValue)
       THEN /\ varDict' = addedProps(varDict, newVarKey, newVarValue)
            /\ varDictKeys' = addedKeys(varDictKeys, varDict, newVarKey)
            /\ varDictType' = "object"
            /\ newVarKey' = ""
            /\ newVarValue' = ""
            /\ storage' = flushed
            /\ pendingEffect' = effectOf(varDictKeys', varDict', TRUE)
            /\ render(cssInput, prefixes, existingClasses, varDict', TRUE)
       ELSE UNCHANGED <<varDict, varDictKeys, varDictType, newVarKey,
                        newVarValue, storage, pendingEffect, parsed, tw,
                        withPxStr, merged, output>>
    /\ UNCHANGED <<cssInput, prefixes, existingClasses, pc, typed>>

\* the Remove button of an entry, lines 902-908 and 993
removeVarMapping(key) ==
    /\ key \in DOMAIN varDict
    /\ varDict' = removedProps(varDict, key)
    /\ varDictKeys' = removedKeys(varDictKeys, key)
    /\ varDictType' = "object"
    /\ storage' = flushed
    /\ pendingEffect' = effectOf(varDictKeys', varDict', TRUE)
    /\ render(cssInput, prefixes, existingClasses, varDict', TRUE)
    /\ UNCHANGED <<cssInput, prefixes, existingClasses, pc, typed, newVarKey,
                   newVarValue>>

\* what localStorage holds when the page opens: nothing, or a dictionary
\* persisted by an earlier visit
StoredDicts ==
    { EmptyObj,
      setItem(EmptyObj, JSONstringify(<<"--Gap">>, "--Gap" :> "red-500")) }

\* the first render: the dictionary is loaded, the inputs are empty and the
\* effect of the mount is still to run
InitUI ==
    /\ storage \in StoredDicts
    /\ varDict = loadVarDict(storage).props
    /\ varDictKeys = loadVarDict(storage).keys
    /\ varDictType = loadVarDict(storage).type
    /\ newVarKey = ""
    /\ newVarValue = ""
    /\ pendingEffect = effectOf(varDictKeys, varDict, TRUE)
    /\ cssInput = ""
    /\ typed = <<>>
    /\ prefixes = ""
    /\ existingClasses = ""
    /\ parsed = parseCSS(cssInput, varDict)
    /\ tw = toTailwind(parsed)
    /\ withPxStr = applyPrefixes(tw, prefixes)
    /\ merged = mergeClasses(classList(existingClasses), classList(withPxStr))
    /\ output = join(merged, " ")
    /\ pc = "done"

NextUI ==
    \/ \E lines \in CssPool : setCssInput(lines)
    \/ \E text \in ExistingInputs : setExistingClasses(text)
    \/ \E text \in PrefixInputs : setPrefixes(text)
    \/ \E text \in KeyInputs : setNewVarKey(text)
    \/ \E text \in ValueInputs : setNewVarValue(text)
    \/ addVarMapping
    \/ \E key \in DOMAIN varDict : removeVarMapping(key)
    \/ runEffect

SpecUI == InitUI /\ [][NextUI]_vars

----------------------------------------------------------------------------
(* The dictionary store *)

\* no entry has an empty key or value, keys and values are trimmed, and the
\* keys are listed once each
EntriesClean ==
    /\ \A k \in DOMAIN varDict :
           /\ k # "" /\ trim(k) = k
           /\ varDict[k] # "" /\ trim(varDict[k]) = varDict[k]
    /\ {varDictKeys[i] : i \in 1..Len(varDictKeys)} = DOMAIN varDict
    /\ \A i, j \in 1..Len(varDictKeys) :
           varDictKeys[i] = varDictKeys[j] => i = j

\* dict is prev with key bound to value and nothing else changed
Upserted(prev, dict, key, value) ==
    /\ DOMAIN dict = DOMAIN prev \cup {key}
    /\ dict[key] = value
    /\ \A k \in DOMAIN prev \ {key} : dict[k] = prev[k]

\* dict is prev without key
Removed(prev, dict, key) ==
    /\ DOMAIN dict = DOMAIN prev \ {key}
    /\ \A k \in DOMAIN dict : dict[k] = prev[k]

\* the form holds a key and a value that are not blank
FormFilled == trim(newVarKey) # "" /\ trim(newVarValue) # ""

\* a step changes the dictionary only by removing one key or by binding the
\* trimmed key of a filled form to its trimmed value, and an add with a
\* filled form does that
StoreStep ==
    /\ varDict' # varDict =>
           \/ \E key \in DOMAIN varDict : Removed(varDict, varDict', key)
           \/ /\ FormFilled
              /\ Upserted(varDict, varDict', trim(newVarKey), trim(newVarValue))
    /\ addVarMapping =>
           IF FormFilled
           THEN Upserted(varDict, varDict', trim(newVarKey), trim(newVarValue))
           ELSE varDict' = varDict /\ varDictKeys' = varDictKeys

\* C11: an add whose key or value is blank after trimming leaves the
\* dictionary unchanged; from a dictionary without blank entries, after any
\* sequence of adds and removes no entry has an empty key or value, every key
\* and value is trimmed, and keys are unique, an add on an existing key
\* replacing its value
C11_DictionaryStore == []EntriesClean /\ [][StoreStep]_vars

\* a padded key and value were added trimmed, and the form holds a blank key
C11_Witness ==
    /\ "--Brand" \in DOMAIN varDict
    /\ varDict["--Brand"] = "blue-500"
    /\ newVarKey = " "
    /\ newVarValue = "red-500"

----------------------------------------------------------------------------
(* The load of the dictionary when the page opens, lines 796-807 and 980 *)

\* a content of localStorage written `text`; wf says that it is the
\* serialization of a dictionary
Content(text, wf) == [present |-> TRUE, text |-> text, wf |-> wf]

Absent == [present |-> FALSE, text |-> "", wf |-> FALSE]

LoadValues == {"red-500", "blue-500", "mackinac"}

LoadKeyLists ==
    {<<>>, <<"--Brand">>, <<"--Gap">>, <<"--Brand", "--Gap">>,
     <<"--Gap", "--Brand">>}

\* the serializations of the dictionaries with these keys and values
Serialized ==
    UNION { { JSONstringify(keys, props) :
                props \in [{keys[i] : i \in 1..Len(keys)} -> LoadValues] } :
            keys \in LoadKeyLists }

\* serializations, the same cut short at either end, values that are not
\* objects, and text that is not JSON
StoredPool ==
    {Content(t, TRUE) : t \in Serialized}
    \cup {Content(t, TRUE) :
            t \in {" { } ", "{ \"--Brand\" : \"red-500\" }\n",
                   "{\"--Gap\":\"1\",\"--Gap\":\"2\"}"}}
    \cup {Content(Take(t, Len(t) - 1), FALSE) : t \in Serialized}
    \cup {Content(Drop(t, 1), FALSE) : t \in Serialized}
    \cup {Content(t, FALSE) :
            t \in {"", "null", " null ", "true", "false", "0", "42",
                   "\"mackinac\"", "\"\"", "[]", "[\"red-500\"]",
                   "[\"red-500\", \"blue-500\"]", "undefined",
                   "[object Object]", "{'--Brand':'red-500'}",
                   "{\"--Brand\"}", "{\"--Brand\":}", "{\"--Brand\":\"red-500\",}",
                   "--Brand=red-500"}}
    \cup {Absent}

\* the first render of the component: useState runs the initializer of
\* varDict, lines 796-807, the output of the empty inputs is computed, and
\* Object.keys(varDict), line 980, throws a TypeError when varDict is null
mount ==
    /\ pc = "mount"
    /\ varDict' = loadVarDict(storage).props
    /\ varDictKeys' = loadVarDict(storage).keys
    /\ varDictType' = loadVarDict(storage).type
    /\ parsed' = parseCSS(cssInput, varDict')
    /\ tw' = toTailwind(parsed')
    /\ withPxStr' = applyPrefixes(tw', prefixes)
    /\ merged' = mergeClasses(classList(existingClasses), classList(withPxStr'))
    /\ output' = join(merged', " ")
    /\ IF varDictType' = "null"
       THEN pc' = "crashed" /\ pendingEffect' = <<>>
       ELSE pc' = "done" /\ pendingEffect' = effectOf(varDictKeys', varDict', TRUE)
    /\ UNCHANGED <<cssInput, prefixes, existingClasses, typed, newVarKey,
                   newVarValue, storage>>

InitLoad ==
    /\ typed \in StoredPool
    /\ storage = IF typed.present THEN setItem(EmptyObj, typed.text) ELSE EmptyObj
    /\ varDict = EmptyObj
    /\ varDictKeys = <<>>
    /\ varDictType = "undefined"
    /\ newVarKey = ""
    /\ newVarValue = ""
    /\ pendingEffect = <<>>
    /\ cssInput = ""
    /\ prefixes = ""
    /\ existingClasses = ""
    /\ Blank
    /\ pc = "mount"

NextLoad == mount

SpecLoad == InitLoad /\ [][NextLoad]_vars

\* C12: for any content under the storage key that is not a well-formed
\* serialized dictionary, and for no content, the load yields the empty
\* mapping and the page does not fail
C12_LoadTolerant ==
    (pc # "mount" /\ ~typed.wf) =>
        /\ pc = "done"
        /\ varDictType = "object"
        /\ varDict = EmptyObj
        /\ varDictKeys = <<>>

----------------------------------------------------------------------------
(* The persistence of the dictionary *)

\* C13: after any sequence of adds and removes, once the pending persistence
\* effect has run, the content under the storage key is the serialization of
\* the dictionary in memory
C13_Persisted ==
    pendingEffect = <<>> =>
        /\ STORAGE_KEY \in DOMAIN storage
        /\ storage[STORAGE_KEY] = JSONstringify(varDictKeys, varDict)
        /\ loadVarDict(storage) = JSValue("object", varDictKeys, varDict)

\* two mappings were added, one of them over an earlier value, and the
\* effect has run
C13_Witness ==
    /\ pendingEffect = <<>>
    /\ varDictKeys = <<"--Gap", "--Brand">>
    /\ varDict["--Gap"] = "blue-500"
    /\ storage[STORAGE_KEY] = "{\"--Gap\":\"blue-500\",\"--Brand\":\"red-500\"}"

----------------------------------------------------------------------------
(* The displayed output *)

\* C14: in every state reached by any interleaving of edits of the CSS text,
\* the prefixes, the existing classes and the dictionary, the displayed
\* output is merge(existing, prefix(map(parse(CSS text, dictionary)))) of the
\* current values of the four inputs
C14_NoStaleOutput ==
    output = outputOf(cssInput, prefixes, existingClasses, varDict)

\* a mapping for --Brand, which no stored dictionary holds, was added and
\* shows in the output of the CSS text, under the prefix and after the
\* existing classes
C14_Witness ==
    /\ cssInput = "color: var(--Brand, #272727);"
    /\ prefixes = "lg"
    /\ existingClasses = "text-sm"
    /\ "--Brand" \in DOMAIN varDict
    /\ output = "text-sm lg:text-[red-500]"

----------------------------------------------------------------------------
(* The border shorthands *)

\* the value `width style color`, of which the style and the colour, or the
\* colour, can be left out
BorderValue(width, style, color) ==
    join(filterBoolean(<<width, style, color>>), " ")

\* the line `side: width style color;`
BorderDecl(side, width, style, color) ==
    [wf |-> TRUE,
     text |-> side \o ": " \o BorderValue(width, style, color) \o ";",
     prop |-> side,
     segs |-> <<Lit(BorderValue(width, style, color))>>,
     width |-> width, style |-> style, color |-> color]

\* the sides in the order they are typed
Sides == <<"border-top", "border-right", "border-bottom", "border-left", "border">>

\* what a side can declare
BorderValues ==
    { <<"1px", "solid", "#ABABAB">>, <<"0", "none", "transparent">>,
      <<"2px", "dashed", "transparent">>, <<"0px", "solid", "red">>,
      <<"1px", "dashed", "">>, <<"0", "", "">> }

\* every choice of a value, or of none, for each side
BorderChoices == [1..Len(Sides) -> BorderValues \cup {<<>>}]

BorderLines(choice) ==
    LET declared == SelectSeq([i \in 1..Len(Sides) |-> i],
                              LAMBDA i : choice[i] # <<>>)
    IN  [n \in 1..Len(declared) |->
            BorderDecl(Sides[declared[n]], choice[declared[n]][1],
                       choice[declared[n]][2], choice[declared[n]][3])]

InitBorder ==
    /\ \E choice \in BorderChoices : typed = BorderLines(choice)
    /\ cssInput = TextOf(typed)
    /\ prefixes = ""
    /\ existingClasses = ""
    /\ varDict = EmptyObj
    /\ Settled
    /\ Blank
    /\ pc = "parse"

NextBorder == callParseCSS \/ callToTailwind

SpecBorder == InitBorder /\ [][NextBorder]_vars

\* the class prefix of each side
SideClass ==
    ("border" :> "border") @@ ("border-top" :> "border-t") @@
    ("border-bottom" :> "border-b") @@ ("border-left" :> "border-l") @@
    ("border-right" :> "border-r")

DeclaredStyles == {typed[i].style : i \in 1..Len(typed)}

\* C15: for any combination of border, border-top, border-bottom,
\* border-left and border-right a `border-<style>` class is emitted once
\* however many sides declare the style, and not at all for the style
\* `none`; no width class is emitted for a width of `0` or `0px`, and no
\* colour class for the colour `transparent`
C15_BorderDedup ==
    pc = "prefix" =>
        /\ \A style \in DeclaredStyles \ {"none", ""} :
               Count(tw, "border-" \o style) = 1
        /\ ~Emitted("border-none")
        /\ \A i \in 1..Len(typed) :
               LET side == SideClass[typed[i].prop]
               IN  /\ typed[i].width \in {"0", "0px"} =>
                       /\ ~Emitted(side)
                       /\ ~Emitted(side \o "-[" \o typed[i].width \o "]")
                   /\ typed[i].color = "transparent" =>
                       ~Emitted(side \o "-[transparent]")
                   /\ typed[i].width \notin {"0", "0px"} =>
                       \/ Emitted(side)
                       \/ Emitted(side \o "-[" \o typed[i].width \o "]")
                   /\ typed[i].color \notin {"transparent", ""} =>
                       Emitted(side \o "-[" \o typed[i].color \o "]")

\* three sides declare `solid`, one of them with a width of 0px, and one
\* side declares `0 none transparent`
C15_Witness ==
    /\ pc = "prefix"
    /\ Cardinality({i \in 1..Len(typed) : typed[i].style = "solid"}) = 3
    /\ \E i \in 1..Len(typed) : typed[i].width = "0px"
    /\ \E i \in 1..Len(typed) : typed[i].style = "none"
    /\ Count(tw, "border-solid") = 1

----------------------------------------------------------------------------
(* The marker of dictionary values *)

\* C16: for every dictionary whose values do not hold the marker `__DICT__`,
\* the displayed output does not hold it, whichever property carries the
\* var() reference that the dictionary resolves
C16_NoMarkerLeak ==
    (\A k \in DOMAIN varDict : ~includes(varDict[k], "__DICT__")) =>
        ~includes(output, "__DICT__")

----------------------------------------------------------------------------
(* The classes the merge drops *)

\* C17: each new class appears in the merged list or is literally equal,
\* variant prefix included, to a class of the existing list
C17_NoClassLost ==
    pc = "done" =>
        \A i \in 1..Len(newClassesList) :
            \/ \E j \in 1..Len(merged) : merged[j] = newClassesList[i]
            \/ \E j \in 1..Len(existingClassesList) :
                   existingClassesList[j] = newClassesList[i]

=============================================================================
